---------------------------- MODULE Spec2Model ----------------------------
(***************************************************************************)
(* A model of CanvasParticleSystem (src/src/canvasParticleSystem.ts)       *)
(* and of the application around it: App (src/src/index.tsx),              *)
(* AudioManager (audio/audioContext.ts), AudioAnalyser (audio/analyser.ts) *)
(* and the emitter ParticleSystem (simulation/particles.ts).               *)
(*                                                                         *)
(* Specifications: Spec (the particle system, any calls), StepSpec (one    *)
(* given particle), BandSpec (band centres), AppSpec and AppFairSpec (the  *)
(* application), AnalyserSpec and EmitterSpec (those objects alone).       *)
(*                                                                         *)
(* Number representation.  The program computes in IEEE doubles; the model *)
(* computes in fixed point over the integers:                              *)
(*   positions, velocities, masses  : 1/PS of a pixel (PS = 100)           *)
(*   band intensities               : 1/IS            (IS = 1000000)       *)
(*   forces                         : 1/FS            (FS = 100000)        *)
(*   opacities                      : 1/OS            (OS = 100000)        *)
(* Every division truncates toward zero.  A double that is NaN is the      *)
(* value NaN below; every arithmetic step yields NaN when an operand is    *)
(* NaN and every comparison with NaN is false, as in IEEE 754.             *)
(***************************************************************************)
EXTENDS Integers, Sequences, FiniteSets

\* ------------------------------------------------------------------ bounds
\* Largest number of animate() calls explored.
MaxTicks == 2
\* Largest particle count a caller asks for.
MaxDots == 3
\* Particle count at construction (DOT_COUNT = 50 in the program, scaled down).
InitDotCount == 3
\* Largest number of frequency bands, and largest frequency (Hz), for which
\* the band centres are computed.
MaxBands == 4
MaxFreq == 5
\* User inputs (clicks, control changes, window resizes) in one run of the
\* application.
MaxInputs == 2
\* Direct calls in one run of an object on its own.
MaxCalls == 4
\* Largest capacity an emitter ParticleSystem is constructed with.
MaxCapacity == 2

\* --------------------------------------------------- number representation
PS == 100
IS == 1000000
FS == 100000
OS == 100000
NaN == -1000000000

IsNaN(a) == a = NaN

\* Division truncating toward zero.
TDiv(a, b) == IF a >= 0 THEN a \div b ELSE -((-a) \div b)

Abs(a) == IF a < 0 THEN -a ELSE a

Min(a, b) == IF a < b THEN a ELSE b

\* a + b on doubles.
FAdd(a, b) == IF IsNaN(a) \/ IsNaN(b) THEN NaN ELSE a + b

\* a < b on doubles (false when either is NaN).
FLt(a, b) == ~IsNaN(a) /\ ~IsNaN(b) /\ a < b

\* One step of the integer Newton iteration for the square root of n,
\* started at or above the root.
RECURSIVE SqrtNewton(_, _)
SqrtNewton(n, x) ==
    LET y == (x + n \div x) \div 2
    IN  IF y < x THEN SqrtNewton(n, y) ELSE x

\* Math.sqrt on a non-negative fixed-point square: the largest r with r*r <= n.
Sqrt(n) ==
    IF n = 0 THEN 0
    ELSE SqrtNewton(n, IF n < 256 THEN n
                       ELSE IF n < 65536 THEN 256
                       ELSE IF n < 1048576 THEN 1024
                       ELSE IF n < 16777216 THEN 4096
                       ELSE IF n < 268435456 THEN 16384
                       ELSE 46340)


\* ------------------------------------------------------- program constants
DIST_THRESH_MAX == 90
FORCE_CONSTANT == 10
NUM_FREQUENCY_BANDS == 8
\* INWARD_PULL = 0.5, DAMPING = 0.99, EDGE_BOUNCE = 0.8, in hundredths.
INWARD_PULL == 50
DAMPING == 99
EDGE_BOUNCE == 80
\* const maxSpeed = 10 (pixels per tick).
maxSpeed == 10
\* Anchor circle radius (0.25) and free radius (0.4) of the smaller canvas
\* dimension, in hundredths.
AnchorRadiusPct == 25
MaxDistPct == 40
\* Triangle opacity factor 0.02, in units of 1/OS.
TriangleOpacity == 2000

\* ------------------------------------------------------------ environment
\* window.innerWidth x window.innerHeight, in pixels.
CanvasSizes == { <<200, 200>>, <<40, 40>> }

\* Math.random() yields a double in [0,1); the model draws it in 1/RS steps.
RS == 1000

\* One particle consumes five successive Math.random() results:
\* x, y, vx, vy, mass.  A stream is what Math.random() returns during one
\* initializeDots() call; particle i consumes entry ((i-1) mod Len)+1.
RandomStreams ==
    << \* three particles at rest, nearly equilateral with sides below 90
       << <<300, 300, 500, 500, 500>>, <<700, 300, 500, 500, 500>>,
          <<500, 645, 500, 500, 500>> >>,
       \* two coincident particles and one at distance exactly 90 from them
       << <<300, 300, 500, 500, 0>>, <<300, 300, 500, 500, 0>>,
          <<750, 300, 500, 500, 0>> >>,
       \* a corner particle moving out, one next to anchor 0, one on the top
       \* edge moving up
       << <<0, 0, 100, 700, 0>>, <<740, 500, 500, 500, 0>>,
          <<500, 0, 500, 0, 999>> >>,
       \* one particle at the right, bottom and left edge each, moving out
       << <<999, 500, 999, 500, 0>>, <<500, 999, 500, 999, 0>>,
          <<0, 500, 0, 500, 0>> >> >>

StreamIds == 1..Len(RandomStreams)

Random(stream, i) ==
    LET s == RandomStreams[stream] IN s[((i - 1) % Len(s)) + 1]

\* The analysers a caller can attach: sampleRate (Hz) and frequencyBinCount.
NoAnalyser == [sampleRate |-> 0, frequencyBinCount |-> 0]

Analysers ==
    { [sampleRate |-> 44100, frequencyBinCount |-> 512],
      [sampleRate |-> 3000, frequencyBinCount |-> 512] }

\* What getByteFrequencyData writes in one tick: a byte per bin.
Spectra == {"silence", "falling"}

ByteAt(spectrum, bin) ==
    CASE spectrum = "silence" -> 0
      [] spectrum = "falling" -> 255 - ((bin * 5) % 256)

\* Particle counts a caller passes to setDotCount.
DotCounts == {-1, 0, MaxDots - 1, MaxDots}

VARIABLES
    width, height,      \* canvas.width, canvas.height (1/PS pixel)
    dots,               \* this.dots
    DOT_COUNT,          \* this.DOT_COUNT
    audioAnalyser,      \* this.audioAnalyser (NoAnalyser when falsy)
    frequencyBands,     \* this.frequencyBands
    showConnections,    \* this.showConnections
    drawCalls,          \* the calls of drawConnections on the canvas, in order
    edges, triangles,   \* strokes and fills of drawConnections on the canvas
    before,             \* this.dots at the start of the frame animate() has
                        \* just run; empty after any other call
    threw,              \* whether the last call raised an exception
    lastOp,             \* the last public call
    ticks,              \* number of animate() calls so far
    \* App (index.tsx)
    isRunning,          \* this.isRunning
    currentMode,        \* this.currentMode
    testModeEnabled,    \* testModeEnabled of setupTestModeButton
    initPc,             \* where App.initialize() stands
    lineFrames,         \* number of lineVisualizer.animate() calls so far
    inputs,             \* number of user inputs and direct calls so far
    \* AudioManager (audio/audioContext.ts)
    contextState,       \* this.context.state
    mediaStream,        \* whether this.mediaStream is a stream (not null)
    isActive,           \* this.isActive
    audioPc,            \* where AudioManager.initialize() stands
    activations,        \* resume() promises of activateAudio not yet settled
    orphanSources,      \* media-stream sources handed to 'audioSourceCreated'
    \* AudioAnalyser (audio/analyser.ts)
    useTestData,        \* this.useTestData
    testOscillator,     \* this.testOscillator: "null" or "node"
    testGain,           \* this.testGain: "null" or "node"
    analyserInputs,     \* the nodes connected to this.analyser
    runningOscillators, \* test oscillators started and not stopped
    lfos,               \* modulating oscillators started (never stopped)
    dataArray,          \* what getByteFrequencyData last wrote to dataArray
    \* ParticleSystem (simulation/particles.ts)
    particles,          \* this.particles
    maxParticles,       \* this.maxParticles
    particleClass       \* which of the two versions of the class is loaded

appVars == <<isRunning, currentMode, testModeEnabled, initPc, lineFrames,
             inputs>>

managerVars == <<contextState, mediaStream, isActive, audioPc, activations,
                 orphanSources>>

analyserVars == <<useTestData, testOscillator, testGain, analyserInputs,
                  runningOscillators, lfos, dataArray>>

emitterVars == <<particles, maxParticles, particleClass>>

\* Everything but the fields of the CanvasParticleSystem.
hostVars == <<appVars, managerVars, analyserVars, emitterVars>>

vars == <<width, height, dots, DOT_COUNT, audioAnalyser, frequencyBands,
          showConnections, drawCalls, edges, triangles, before, threw, lastOp,
          ticks, hostVars>>

\* The fields of App as declared, before initialize() has run.
AppInit ==
    /\ isRunning = FALSE
    /\ currentMode = "particles"
    /\ testModeEnabled = FALSE
    /\ initPc = "awaitAudio"
    /\ lineFrames = 0
    /\ inputs = 0

\* new AudioManager(): the context is created suspended or running, as the
\* browser's autoplay policy decides; initialize() starts with getUserMedia.
ManagerInit(state) ==
    /\ contextState = state
    /\ mediaStream = FALSE
    /\ isActive = FALSE
    /\ audioPc = "getUserMedia"
    /\ activations = 0
    /\ orphanSources = 0

\* new AudioAnalyser(context)
AnalyserInit ==
    /\ useTestData = FALSE
    /\ testOscillator = "null"
    /\ testGain = "null"
    /\ analyserInputs = {}
    /\ runningOscillators = 0
    /\ lfos = 0
    /\ dataArray = "silence"

\* new ParticleSystem(capacity)
EmitterInit(capacity) ==
    /\ particles = << >>
    /\ maxParticles = capacity
    /\ particleClass = "plain"

\* The other objects as constructed, for the specifications that leave them
\* alone.
HostInit ==
    AppInit /\ ManagerInit("suspended") /\ AnalyserInit /\ EmitterInit(1)


\* ---------------------------------------------------------- construction
\* centerFreq of band i (0-based), minFreq * (maxFreq/minFreq)^(i/7), in
\* hundredths of a hertz.
CenterFreq ==
    << 2000, 3861, 7455, 14393, 27789, 53653, 103589, 200000 >>

\* initializeFrequencyBands(): one band per centre frequency, intensity 0.
InitialBands ==
    [i \in 1..NUM_FREQUENCY_BANDS |->
        [centerFreq |-> CenterFreq[i], intensity |-> 0]]

\* The particle pushed by one iteration of initializeDots().
NewDot(r, w, h) ==
    [x    |-> TDiv(r[1] * w, RS),
     y    |-> TDiv(r[2] * h, RS),
     vx   |-> TDiv((2 * r[3] - RS) * 5 * PS, 2 * RS),
     vy   |-> TDiv((2 * r[4] - RS) * 5 * PS, 2 * RS),
     mass |-> (PS \div 10) + TDiv(r[5] * 9 * PS, 10 * RS)]

\* initializeDots(): push DOT_COUNT particles onto ds; the loop body never
\* runs when count <= 0.
InitializeDots(ds, count, stream, w, h) ==
    ds \o [i \in 1..count |-> NewDot(Random(stream, i), w, h)]

\* ------------------------------------------------------ connectivity pass
\* distance(dot1, dot2), in 1/PS pixel.
Distance(dot1, dot2) ==
    IF IsNaN(dot1.x) \/ IsNaN(dot1.y) \/ IsNaN(dot2.x) \/ IsNaN(dot2.y)
    THEN NaN
    ELSE LET dx == dot1.x - dot2.x
             dy == dot1.y - dot2.y
         IN  Sqrt(dx * dx + dy * dy)

\* The threshold test with <= in place of <.
NearInclusive(dot1, dot2) ==
    LET d == Distance(dot1, dot2)
    IN  ~IsNaN(d) /\ d <= DIST_THRESH_MAX * PS

\* The test dist < this.DIST_THRESH_MAX of drawConnections().
Near(dot1, dot2) == FLt(Distance(dot1, dot2), DIST_THRESH_MAX * PS)

\* triangleArea(dot1, dot2, dot3), in 1/10 square pixel.
TriangleArea(dot1, dot2, dot3) ==
    TDiv(Abs(dot1.x * (dot2.y - dot3.y) + dot2.x * (dot3.y - dot1.y)
             + dot3.x * (dot1.y - dot2.y)), 2 * 10 * PS)

\* maxArea = DIST_THRESH_MAX^2 / 4, in 1/10 square pixel.
MaxArea == (DIST_THRESH_MAX * DIST_THRESH_MAX * 10) \div 4

\* (1 - area / maxArea) * 0.02, in 1/OS.
TriangleOpacityOf(area) ==
    TriangleOpacity - TDiv(area * TriangleOpacity, MaxArea)

\* The edge opacity without the "1 -": dist1 / DIST_THRESH_MAX.
EdgeOpacityRising(dist1) ==
    TDiv(dist1 * (OS \div 10), DIST_THRESH_MAX * (PS \div 10))

\* 1 - dist1 / DIST_THRESH_MAX, in 1/OS.
EdgeOpacityOf(dist1) ==
    OS - TDiv(dist1 * (OS \div 10), DIST_THRESH_MAX * (PS \div 10))

\* One canvas call of drawConnections(): a fill of the triangle (i, j, k) or
\* a stroke of the line (i, j); k is 0 in a stroke.
Fill(ds, i, j, k) ==
    [kind |-> "fill", i |-> i, j |-> j, k |-> k,
     opacity |-> TriangleOpacityOf(TriangleArea(ds[i], ds[j], ds[k]))]

Stroke(ds, i, j) ==
    [kind |-> "stroke", i |-> i, j |-> j, k |-> 0,
     opacity |-> EdgeOpacityOf(Distance(ds[i], ds[j]))]

\* for (let k = j + 1; k < dots.length; k++): a fill when dist2 (j,k) and
\* dist3 (k,i) are both within the threshold.
RECURSIVE TriangleLoop(_, _, _, _)
TriangleLoop(ds, i, j, k) ==
    IF k > Len(ds) THEN << >>
    ELSE (IF Near(ds[j], ds[k]) /\ Near(ds[k], ds[i])
          THEN << Fill(ds, i, j, k) >> ELSE << >>)
         \o TriangleLoop(ds, i, j, k + 1)

\* The body of the j loop with the k loop starting at j instead of j + 1.
PairBodyFromJ(ds, i, j) ==
    IF Near(ds[i], ds[j])
    THEN TriangleLoop(ds, i, j, j) \o << Stroke(ds, i, j) >>
    ELSE << >>

\* The body of the j loop with the stroke inside the triangle test, one
\* stroke per fill.
PairBodyStrokePerFill(ds, i, j) ==
    IF Near(ds[i], ds[j])
    THEN LET fills == TriangleLoop(ds, i, j, j + 1)
         IN  fills \o [n \in 1..Len(fills) |-> Stroke(ds, i, j)]
    ELSE << >>

\* The body of the j loop: when dist1 (i,j) is within the threshold, the
\* triangles of the pair and then the line between the two particles.
PairBody(ds, i, j) ==
    IF Near(ds[i], ds[j])
    THEN TriangleLoop(ds, i, j, j + 1) \o << Stroke(ds, i, j) >>
    ELSE << >>

\* for (let j = i + 1; j < dots.length; j++)
RECURSIVE PairLoop(_, _, _)
PairLoop(ds, i, j) ==
    IF j > Len(ds) THEN << >>
    ELSE PairBody(ds, i, j) \o PairLoop(ds, i, j + 1)

\* for (let i = 0; i < dots.length; i++)
RECURSIVE DotLoop(_, _)
DotLoop(ds, i) ==
    IF i > Len(ds) THEN << >>
    ELSE PairLoop(ds, i, i + 1) \o DotLoop(ds, i + 1)

\* drawConnections(): the canvas calls it makes, in order.
DrawConnections(ds) == DotLoop(ds, 1)

\* The strokes among a sequence of canvas calls.
DrawnEdges(calls) ==
    { [i |-> calls[n].i, j |-> calls[n].j, opacity |-> calls[n].opacity] :
        n \in { m \in 1..Len(calls) : calls[m].kind = "stroke" } }

\* The fills among a sequence of canvas calls.
DrawnTriangles(calls) ==
    { [i |-> calls[n].i, j |-> calls[n].j, k |-> calls[n].k,
       opacity |-> calls[n].opacity] :
        n \in { m \in 1..Len(calls) : calls[m].kind = "fill" } }


\* ------------------------------------------------------ spectrum sampling
\* Math.floor((band.centerFreq / (sampleRate / 2)) * freqData.length)
BinIndex(centerFreq, analyser) ==
    (centerFreq * 2 * analyser.frequencyBinCount)
        \div (analyser.sampleRate * 100)

\* freqData[binIndex] / 255.0; an index past the end reads undefined, and
\* undefined / 255.0 is NaN.
SampledIntensity(centerFreq, analyser, spectrum) ==
    LET binIndex == BinIndex(centerFreq, analyser)
    IN  IF binIndex >= analyser.frequencyBinCount
        THEN NaN
        ELSE TDiv(ByteAt(spectrum, binIndex) * IS, 255)

\* updateFFTForces(): returns at once when no analyser is attached.
UpdateFFTForces(bands, analyser, spectrum) ==
    IF analyser = NoAnalyser
    THEN bands
    ELSE [i \in 1..Len(bands) |->
            [bands[i] EXCEPT
                !.intensity = SampledIntensity(bands[i].centerFreq,
                                               analyser, spectrum)]]

\* ------------------------------------------------------------ integration
\* Math.cos / Math.sin of 2*PI*i / NUM_FREQUENCY_BANDS, in thousandths.
Cos == << 1000, 707, 0, -707, -1000, -707, 0, 707 >>
Sin == << 0, 707, 1000, 707, 0, -707, -1000, -707 >>

\* The anchor (centerX, centerY) of band i (1-based here).
Anchor(i, w, h) ==
    LET radius == TDiv(Min(w, h) * AnchorRadiusPct, 100)
    IN  [x |-> (w \div 2) + TDiv(radius * Cos[i], 1000),
         y |-> (h \div 2) + TDiv(radius * Sin[i], 1000)]

\* The force of one band falling off with the distance instead of its
\* square: forceMag = FORCE_CONSTANT * intensity / distance.
BandForceInverseLinear(dot, band, anchor) ==
    IF IsNaN(dot.x) \/ IsNaN(dot.y) THEN [fx |-> NaN, fy |-> NaN]
    ELSE LET dx == anchor.x - dot.x
             dy == anchor.y - dot.y
             distance == Sqrt(dx * dx + dy * dy)
         IN  IF distance < PS THEN [fx |-> 0, fy |-> 0]
             ELSE IF IsNaN(band.intensity) THEN [fx |-> NaN, fy |-> NaN]
             ELSE LET strength == TDiv(FORCE_CONSTANT * band.intensity,
                                       IS \div FS)
                      forceMag == TDiv(strength * PS, distance)
                      dirX == TDiv(dx * 1000, distance)
                      dirY == TDiv(dy * 1000, distance)
                  IN  [fx |-> TDiv(dirX * forceMag, 1000),
                       fy |-> TDiv(dirY * forceMag, 1000)]

\* What one iteration of the band loop of applyFFTForces adds to
\* (totalFx, totalFy), in 1/FS.
BandForce(dot, band, anchor) ==
    IF IsNaN(dot.x) \/ IsNaN(dot.y)
    THEN [fx |-> NaN, fy |-> NaN]
    ELSE LET dx == anchor.x - dot.x
             dy == anchor.y - dot.y
             distanceSquared == dx * dx + dy * dy
             distance == Sqrt(distanceSquared)
         IN  IF distance < PS
             THEN [fx |-> 0, fy |-> 0]
             ELSE IF IsNaN(band.intensity)
             THEN [fx |-> NaN, fy |-> NaN]
             ELSE LET strength == TDiv(FORCE_CONSTANT * band.intensity,
                                       IS \div FS)
                      forceMag == TDiv(strength * PS, distanceSquared \div PS)
                      dirX == TDiv(dx * 1000, distance)
                      dirY == TDiv(dy * 1000, distance)
                  IN  [fx |-> TDiv(dirX * forceMag, 1000),
                       fy |-> TDiv(dirY * forceMag, 1000)]

RECURSIVE TotalForce(_, _, _, _, _)
TotalForce(dot, bands, i, w, h) ==
    IF i > Len(bands)
    THEN [fx |-> 0, fy |-> 0]
    ELSE LET f == BandForce(dot, bands[i], Anchor(i, w, h))
             rest == TotalForce(dot, bands, i + 1, w, h)
         IN  [fx |-> FAdd(f.fx, rest.fx), fy |-> FAdd(f.fy, rest.fy)]

\* a * num / den on doubles.
FScale(a, num, den) == IF IsNaN(a) THEN NaN ELSE TDiv(a * num, den)

\* The velocity limiter at the end of applyFFTForces.
LimitSpeed(dot) ==
    IF IsNaN(dot.vx) \/ IsNaN(dot.vy)
    THEN dot
    ELSE LET speedSquared == dot.vx * dot.vx + dot.vy * dot.vy
         IN  IF speedSquared > (maxSpeed * PS) * (maxSpeed * PS)
             THEN LET speed == Sqrt(speedSquared)
                  IN  [dot EXCEPT !.vx = TDiv(dot.vx * maxSpeed * PS, speed),
                                  !.vy = TDiv(dot.vy * maxSpeed * PS, speed)]
             ELSE dot

\* applyFFTForces(dot)
ApplyFFTForces(dot, bands, w, h) ==
    LET total == TotalForce(dot, bands, 1, w, h)
        ax == FScale(total.fx, PS, (FS \div PS) * dot.mass)
        ay == FScale(total.fy, PS, (FS \div PS) * dot.mass)
        damped == [dot EXCEPT
                     !.vx = FScale(FAdd(dot.vx, ax), DAMPING, 100),
                     !.vy = FScale(FAdd(dot.vy, ay), DAMPING, 100)]
    IN  LimitSpeed(damped)

\* The inward pull without the free radius: every particle off the centre is
\* pulled, as if maxDist were 0.
InwardPullEverywhere(dot, w, h) ==
    IF IsNaN(dot.x) \/ IsNaN(dot.y) THEN dot
    ELSE LET dx == (w \div 2) - dot.x
             dy == (h \div 2) - dot.y
             distFromCenter == Sqrt(dx * dx + dy * dy)
         IN  IF distFromCenter > 0
             THEN [dot EXCEPT
                     !.vx = FAdd(dot.vx, TDiv(dx * INWARD_PULL, 100)),
                     !.vy = FAdd(dot.vy, TDiv(dy * INWARD_PULL, 100))]
             ELSE dot

\* The inward pull of updateDots, added to the velocity after
\* applyFFTForces has returned.
InwardPull(dot, w, h) ==
    IF IsNaN(dot.x) \/ IsNaN(dot.y)
    THEN dot
    ELSE LET dx == (w \div 2) - dot.x
             dy == (h \div 2) - dot.y
             distFromCenter == Sqrt(dx * dx + dy * dy)
             maxDist == TDiv(Min(w, h) * MaxDistPct, 100)
         IN  IF distFromCenter > maxDist
             THEN LET pullFactor ==
                          TDiv((distFromCenter - maxDist) * INWARD_PULL * 10,
                               distFromCenter)
                  IN  [dot EXCEPT
                         !.vx = FAdd(dot.vx, TDiv(dx * pullFactor, 1000)),
                         !.vy = FAdd(dot.vy, TDiv(dy * pullFactor, 1000))]
             ELSE dot

\* The reflected speed without Math.abs: v * EDGE_BOUNCE.
BounceKeepsSign(v) == FScale(v, EDGE_BOUNCE, 100)

\* |v| * EDGE_BOUNCE
Bounce(v) == FScale(IF IsNaN(v) THEN NaN ELSE Abs(v), EDGE_BOUNCE, 100)

\* -a on doubles.
FNeg(a) == IF IsNaN(a) THEN NaN ELSE -a

\* The boundary response as one if / else-if chain over both axes: the y
\* axis is looked at only when the x axis was inside.
CollideOneAxis(dot, w, h) ==
    IF FLt(dot.x, 0) THEN [dot EXCEPT !.x = 0, !.vx = Bounce(dot.vx)]
    ELSE IF FLt(w, dot.x)
         THEN [dot EXCEPT !.x = w, !.vx = FNeg(Bounce(dot.vx))]
    ELSE IF FLt(dot.y, 0) THEN [dot EXCEPT !.y = 0, !.vy = Bounce(dot.vy)]
    ELSE IF FLt(h, dot.y)
         THEN [dot EXCEPT !.y = h, !.vy = FNeg(Bounce(dot.vy))]
    ELSE dot

\* The boundary response of updateDots, one axis after the other.
Collide(dot, w, h) ==
    LET afterX ==
            IF FLt(dot.x, 0)
            THEN [dot EXCEPT !.x = 0, !.vx = Bounce(dot.vx)]
            ELSE IF FLt(w, dot.x)
            THEN [dot EXCEPT !.x = w, !.vx = FNeg(Bounce(dot.vx))]
            ELSE dot
    IN  IF FLt(afterX.y, 0)
        THEN [afterX EXCEPT !.y = 0, !.vy = Bounce(afterX.vy)]
        ELSE IF FLt(h, afterX.y)
        THEN [afterX EXCEPT !.y = h, !.vy = FNeg(Bounce(afterX.vy))]
        ELSE afterX

\* The Euler position step of updateDots.
Move(dot) ==
    [dot EXCEPT !.x = FAdd(dot.x, dot.vx), !.y = FAdd(dot.y, dot.vy)]

\* The body of the particle loop of updateDots.
UpdateDot(dot, bands, w, h) ==
    Collide(Move(InwardPull(ApplyFFTForces(dot, bands, w, h), w, h)), w, h)

\* updateDots() with an interaction: every particle but the first is first
\* drawn towards the particle before it in the array.
UpdateDotsChained(ds, bands, w, h) ==
    [i \in 1..Len(ds) |->
        IF i > 1 /\ ~IsNaN(ds[i].x) /\ ~IsNaN(ds[i - 1].x)
        THEN UpdateDot([ds[i] EXCEPT
                           !.vx = FAdd(@, TDiv(ds[i - 1].x - ds[i].x, 100))],
                       bands, w, h)
        ELSE UpdateDot(ds[i], bands, w, h)]

\* updateDots() once the band intensities are refreshed.
UpdateDots(ds, bands, w, h) ==
    [i \in 1..Len(ds) |-> UpdateDot(ds[i], bands, w, h)]


\* ------------------------------------------------------------- operations
Op(name, arg) == [op |-> name, arg |-> arg]

\* new CanvasParticleSystem(canvasId)
Init ==
    \E size \in CanvasSizes, stream \in StreamIds :
        /\ width = size[1] * PS
        /\ height = size[2] * PS
        /\ DOT_COUNT = InitDotCount
        /\ dots = InitializeDots(<< >>, InitDotCount, stream,
                                 size[1] * PS, size[2] * PS)
        /\ audioAnalyser = NoAnalyser
        /\ frequencyBands = InitialBands
        /\ showConnections = TRUE
        /\ drawCalls = << >>
        /\ edges = {}
        /\ triangles = {}
        /\ before = << >>
        /\ threw = FALSE
        /\ lastOp = Op("constructor", 0)
        /\ ticks = 0
        /\ HostInit

\* The exploration ends with the MaxTicks-th frame: every call is made
\* while ticks < MaxTicks.

\* connectAudioAnalyser(analyser)
ConnectAudioAnalyser(analyser) ==
    /\ ticks < MaxTicks
    /\ audioAnalyser' = analyser
    /\ before' = << >>
    /\ threw' = FALSE
    /\ lastOp' = Op("connectAudioAnalyser", 0)
    /\ UNCHANGED <<width, height, dots, DOT_COUNT, frequencyBands,
                   showConnections, drawCalls, edges, triangles, ticks>>

\* setDotCount that records the count and leaves this.dots alone.
SetDotCountKeepsDots(count, stream) ==
    /\ ticks < MaxTicks
    /\ DOT_COUNT' = count
    /\ before' = << >>
    /\ threw' = FALSE
    /\ lastOp' = Op("setDotCount", count)
    /\ UNCHANGED <<width, height, dots, audioAnalyser, frequencyBands,
                   showConnections, drawCalls, edges, triangles, ticks>>

\* setDotCount that resizes the population in place: it keeps the first
\* particles and only drops or appends the difference.
SetDotCountInPlace(count, stream) ==
    /\ ticks < MaxTicks
    /\ DOT_COUNT' = count
    /\ dots' = IF count <= Len(dots)
               THEN SubSeq(dots, 1, count)
               ELSE InitializeDots(dots, count - Len(dots), stream,
                                   width, height)
    /\ before' = << >>
    /\ threw' = FALSE
    /\ lastOp' = Op("setDotCount", count)
    /\ UNCHANGED <<width, height, audioAnalyser, frequencyBands,
                   showConnections, drawCalls, edges, triangles, ticks>>

\* setDotCount(count)
SetDotCount(count, stream) ==
    /\ ticks < MaxTicks
    /\ DOT_COUNT' = count
    /\ dots' = InitializeDots(<< >>, count, stream, width, height)
    /\ before' = << >>
    /\ threw' = FALSE
    /\ lastOp' = Op("setDotCount", count)
    /\ UNCHANGED <<width, height, audioAnalyser, frequencyBands,
                   showConnections, drawCalls, edges, triangles, ticks>>

\* setShowConnections(show)
SetShowConnections(show) ==
    /\ ticks < MaxTicks
    /\ showConnections' = show
    /\ before' = << >>
    /\ threw' = FALSE
    /\ lastOp' = Op("setShowConnections", 0)
    /\ UNCHANGED <<width, height, dots, DOT_COUNT, audioAnalyser,
                   frequencyBands, drawCalls, edges, triangles, ticks>>

\* resizeCanvas(), the window's resize listener: the canvas takes the window's
\* size.  Assigning canvas.width or canvas.height resets the bitmap, so what
\* was drawn is gone; this.dots is not touched.
ResizeCanvas(size) ==
    /\ ticks < MaxTicks
    /\ size # << width \div PS, height \div PS >>
    /\ width' = size[1] * PS
    /\ height' = size[2] * PS
    /\ drawCalls' = << >>
    /\ edges' = {}
    /\ triangles' = {}
    /\ before' = << >>
    /\ threw' = FALSE
    /\ lastOp' = Op("resizeCanvas", 0)
    /\ UNCHANGED <<dots, DOT_COUNT, audioAnalyser, frequencyBands,
                   showConnections, ticks>>

\* animate() that returns before updateDots when connections are hidden.
AnimateOnlyWhenShown(spectrum) ==
    /\ ticks < MaxTicks
    /\ ticks' = ticks + 1
    /\ frequencyBands' = IF showConnections
                         THEN UpdateFFTForces(frequencyBands, audioAnalyser,
                                              spectrum)
                         ELSE frequencyBands
    /\ dots' = IF showConnections
               THEN UpdateDots(dots, frequencyBands', width, height)
               ELSE dots
    /\ before' = dots
    /\ drawCalls' = IF showConnections THEN DrawConnections(dots') ELSE << >>
    /\ edges' = DrawnEdges(drawCalls')
    /\ triangles' = DrawnTriangles(drawCalls')
    /\ threw' = FALSE
    /\ lastOp' = Op("animate", 0)
    /\ UNCHANGED <<width, height, DOT_COUNT, audioAnalyser, showConnections>>

\* animate() with a connectivity pass that keeps the graph of the tick before
\* and adds this tick's calls to it.
AnimateKeepsGraph(spectrum) ==
    /\ ticks < MaxTicks
    /\ ticks' = ticks + 1
    /\ frequencyBands' = UpdateFFTForces(frequencyBands, audioAnalyser, spectrum)
    /\ dots' = UpdateDots(dots, frequencyBands', width, height)
    /\ before' = dots
    /\ drawCalls' = IF showConnections
                       THEN drawCalls \o DrawConnections(dots')
                       ELSE << >>
    /\ edges' = DrawnEdges(drawCalls')
    /\ triangles' = DrawnTriangles(drawCalls')
    /\ threw' = FALSE
    /\ lastOp' = Op("animate", 0)
    /\ UNCHANGED <<width, height, DOT_COUNT, audioAnalyser, showConnections>>

\* animate() with the stages out of order: the particles are integrated with
\* the intensities of the tick before, and updateFFTForces runs afterwards.
AnimateIntegratesFirst(spectrum) ==
    /\ ticks < MaxTicks
    /\ ticks' = ticks + 1
    /\ dots' = UpdateDots(dots, frequencyBands, width, height)
    /\ frequencyBands' = UpdateFFTForces(frequencyBands, audioAnalyser, spectrum)
    /\ before' = dots
    /\ drawCalls' = IF showConnections THEN DrawConnections(dots') ELSE << >>
    /\ edges' = DrawnEdges(drawCalls')
    /\ triangles' = DrawnTriangles(drawCalls')
    /\ threw' = FALSE
    /\ lastOp' = Op("animate", 0)
    /\ UNCHANGED <<width, height, DOT_COUNT, audioAnalyser, showConnections>>

\* animate(): updateDots, drawDots (which repaints the whole canvas),
\* drawForceFields, and drawConnections when showConnections is set.
Animate(spectrum) ==
    /\ ticks < MaxTicks
    /\ ticks' = ticks + 1
    /\ frequencyBands' = UpdateFFTForces(frequencyBands, audioAnalyser, spectrum)
    /\ dots' = UpdateDots(dots, frequencyBands', width, height)
    /\ before' = dots
    /\ drawCalls' = IF showConnections THEN DrawConnections(dots') ELSE << >>
    /\ edges' = DrawnEdges(drawCalls')
    /\ triangles' = DrawnTriangles(drawCalls')
    /\ threw' = FALSE
    /\ lastOp' = Op("animate", 0)
    /\ UNCHANGED <<width, height, DOT_COUNT, audioAnalyser, showConnections>>

Next ==
    \/ \E analyser \in Analysers \cup {NoAnalyser} :
          ConnectAudioAnalyser(analyser) /\ UNCHANGED hostVars
    \/ \E count \in DotCounts :
          \* Math.random() is consulted only when the loop body runs
          \E stream \in (IF count > 0 THEN StreamIds ELSE {1}) :
              SetDotCount(count, stream) /\ UNCHANGED hostVars
    \/ \E show \in BOOLEAN : SetShowConnections(show) /\ UNCHANGED hostVars
    \/ \E size \in CanvasSizes : ResizeCanvas(size) /\ UNCHANGED hostVars
    \/ \* getByteFrequencyData() is called only when an analyser is attached
       \E spectrum \in (IF audioAnalyser = NoAnalyser THEN {"silence"}
                                                      ELSE Spectra) :
           Animate(spectrum) /\ UNCHANGED hostVars

Spec == Init /\ [][Next]_vars


\* ------------------------------------------- one particle, any given state
\* updateDots as a function of one particle: the particle is given (it need
\* not come from initializeDots), and every step is one animate().
\* Positions are relative to the canvas: the centre, the free radius
\* (0.4 of the smaller dimension), anchor 0 (0.25 of it to the right of the
\* centre), and 5 pixels left of the left edge.
GivenDots(w, h) ==
    LET cx == w \div 2
        cy == h \div 2
        free == TDiv(Min(w, h) * MaxDistPct, 100)
        ring == TDiv(Min(w, h) * AnchorRadiusPct, 100)
        At(x, y, vx, vy, mass) ==
            [x |-> x, y |-> y, vx |-> vx, vy |-> vy, mass |-> mass]
    IN  { At(cx, cy, 0, 0, 50),
          At(cx - (free \div 2), cy + (free \div 4), 0, 0, 50),
          At(cx + free, cy, 0, 0, 100),
          At(cx, cy - free - PS, 0, 0, 50),
          At(cx + ring, cy, 0, 0, 10),
          At(cx + ring - (PS \div 2), cy, 0, 0, 10),
          At(cx + ring + PS, cy, 0, 0, 10),
          At(-5 * PS, cy, -2 * PS, 0, 50),
          At(-5 * PS, cy, 0, PS, 50),
          At(-5 * PS, cy, 3 * PS, 0, 50),
          At(-5 * PS, cy, -8 * PS, 0, 50) }

StepInit ==
    \E size \in CanvasSizes :
      \E dot \in GivenDots(size[1] * PS, size[2] * PS) :
        \E analyser \in {NoAnalyser,
                          [sampleRate |-> 44100, frequencyBinCount |-> 512]} :
            /\ width = size[1] * PS
            /\ height = size[2] * PS
            /\ DOT_COUNT = 1
            /\ dots = << dot >>
            /\ audioAnalyser = analyser
            /\ frequencyBands = InitialBands
            /\ showConnections = TRUE
            /\ drawCalls = << >>
            /\ edges = {}
            /\ triangles = {}
            /\ before = << >>
            /\ threw = FALSE
            /\ lastOp = Op("constructor", 0)
            /\ ticks = 0
            /\ HostInit

StepNext ==
    \E spectrum \in Spectra : Animate(spectrum) /\ UNCHANGED hostVars

StepSpec == StepInit /\ [][StepNext]_vars


\* --------------------------------------------- band centres, any band count
\* initializeFrequencyBands() for a band count n and a range minFreq..maxFreq
\* (the program has n = 8, minFreq = 20, maxFreq = 2000).  The centre
\*     minFreq * Math.pow(maxFreq / minFreq, i / (n - 1))
\* is irrational in general; the model holds its (n-1)-th power, which is the
\* integer minFreq^(n-1-i) * maxFreq^i, and two centres compare as their
\* (n-1)-th powers do.  The rounding of doubles is not modelled.
RECURSIVE Pow(_, _)
Pow(a, k) == IF k = 0 THEN 1 ELSE a * Pow(a, k - 1)

\* The band centres with minFreq and maxFreq exchanged in the formula.
CenterFreqPowerSwapped(i, n, minFreq, maxFreq) ==
    Pow(maxFreq, n - 1 - i) * Pow(minFreq, i)

\* centerFreq of band i (0-based) of n, raised to the power n - 1.
CenterFreqPower(i, n, minFreq, maxFreq) ==
    Pow(minFreq, n - 1 - i) * Pow(maxFreq, i)

\* The parameters of the run: n, minFreq, maxFreq.
BandParams == lastOp.arg

BandInit ==
    \E size \in CanvasSizes :
      \E n \in 2..MaxBands :
        \E minFreq \in 1..MaxFreq :
          \E maxFreq \in (minFreq + 1)..MaxFreq :
            /\ width = size[1] * PS
            /\ height = size[2] * PS
            /\ DOT_COUNT = InitDotCount
            /\ dots = << >>
            /\ audioAnalyser = NoAnalyser
            /\ frequencyBands = << >>
            /\ showConnections = TRUE
            /\ drawCalls = << >>
            /\ edges = {}
            /\ triangles = {}
            /\ before = << >>
            /\ threw = FALSE
            /\ lastOp = Op("initializeFrequencyBands",
                           << n, minFreq, maxFreq >>)
            /\ ticks = 0
            /\ HostInit

\* One iteration of the loop: push the next band, intensity 0.
PushBand ==
    /\ Len(frequencyBands) < BandParams[1]
    /\ frequencyBands' =
          Append(frequencyBands,
                 [centerFreq |-> CenterFreqPower(Len(frequencyBands),
                                                 BandParams[1], BandParams[2],
                                                 BandParams[3]),
                  intensity |-> 0])
    /\ UNCHANGED <<width, height, dots, DOT_COUNT, audioAnalyser,
                   showConnections, drawCalls, edges, triangles, before,
                   threw, lastOp, ticks>>

BandNext == PushBand /\ UNCHANGED hostVars

BandSpec == BandInit /\ [][BandNext]_vars


\* ------------------------------------------------------ the application
\* App (index.tsx) with its AudioManager, its AudioAnalyser and its
\* CanvasParticleSystem.  The browser is the environment: it settles
\* getUserMedia and context.resume(), delivers user inputs and runs the
\* animation frames App.animate asks for.

\* The fields of the CanvasParticleSystem but the history of the last call.
canvasVars == <<width, height, dots, DOT_COUNT, audioAnalyser, frequencyBands,
                showConnections, drawCalls, edges, triangles, before, threw,
                ticks>>

\* The AudioAnalyser as the particle system reads it: the context is made
\* with sampleRate 44100 and fftSize 1024 gives 512 bins.
AppAnalyser == [sampleRate |-> 44100, frequencyBinCount |-> 512]

\* What the analyser node can give: sound reaches it only from the
\* microphone source or the test oscillator, and only while the context runs.
HeardThrough(state, nodes) ==
    IF state = "running" /\ nodes \cap {"stream", "testGain"} # {}
    THEN Spectra
    ELSE {"silence"}

\* Particle counts of the slider (its range, scaled to the model).
SliderCounts == {MaxDots - 1, MaxDots}

\* AudioAnalyser.connect(source)
Connect(source) ==
    /\ analyserInputs' = analyserInputs \cup {source}
    /\ UNCHANGED <<useTestData, testOscillator, testGain, runningOscillators,
                   lfos, dataArray>>

\* enableTestMode without its first line (the return when an oscillator
\* exists).
EnableTestModeAgain ==
    /\ useTestData' = TRUE
    /\ testOscillator' = "node"
    /\ testGain' = "node"
    /\ analyserInputs' = analyserInputs \cup {"testGain"}
    /\ runningOscillators' = runningOscillators + 1
    /\ lfos' = lfos + 1
    /\ UNCHANGED dataArray

\* AudioAnalyser.enableTestMode(context)
EnableTestMode ==
    IF testOscillator # "null"
    THEN UNCHANGED analyserVars
    ELSE /\ useTestData' = TRUE
         /\ testOscillator' = "node"
         /\ testGain' = "node"
         /\ analyserInputs' = analyserInputs \cup {"testGain"}
         /\ runningOscillators' = runningOscillators + 1
         /\ lfos' = lfos + 1
         /\ UNCHANGED dataArray

\* AudioAnalyser.disableTestMode()
DisableTestMode ==
    IF testOscillator = "null"
    THEN UNCHANGED analyserVars
    ELSE /\ useTestData' = FALSE
         /\ runningOscillators' = runningOscillators - 1
         /\ testOscillator' = "null"
         /\ IF testGain # "null"
            THEN /\ analyserInputs' = analyserInputs \ {"testGain"}
                 /\ testGain' = "null"
            ELSE UNCHANGED <<analyserInputs, testGain>>
         /\ UNCHANGED <<lfos, dataArray>>

\* AudioAnalyser.getAudioIntensity(): getByteFrequencyData(this.dataArray)
GetAudioIntensity(spectrum) ==
    /\ dataArray' = spectrum
    /\ UNCHANGED <<useTestData, testOscillator, testGain, analyserInputs,
                   runningOscillators, lfos>>

\* new App(): the three objects as constructed, the context suspended or
\* running as the browser's autoplay policy has it, initialize() waiting for
\* audioManager.initialize().
AppStart ==
    \E size \in CanvasSizes, stream \in StreamIds :
      \E state \in {"suspended", "running"} :
        /\ width = size[1] * PS
        /\ height = size[2] * PS
        /\ DOT_COUNT = InitDotCount
        /\ dots = InitializeDots(<< >>, InitDotCount, stream,
                                 size[1] * PS, size[2] * PS)
        /\ audioAnalyser = NoAnalyser
        /\ frequencyBands = InitialBands
        /\ showConnections = TRUE
        /\ drawCalls = << >>
        /\ edges = {}
        /\ triangles = {}
        /\ before = << >>
        /\ threw = FALSE
        /\ lastOp = Op("constructor", 0)
        /\ ticks = 0
        /\ AppInit /\ ManagerInit(state) /\ AnalyserInit /\ EmitterInit(1)

\* AudioManager.initialize() up to its second await: getUserMedia settles;
\* when granted the stream is kept and tryResumeContext awaits
\* context.resume() if the context is suspended, and otherwise the
\* media-stream source is returned.
GetUserMediaSettles(granted) ==
    /\ audioPc = "getUserMedia"
    /\ IF granted
       THEN /\ mediaStream' = TRUE
            /\ IF contextState = "suspended"
               THEN audioPc' = "resume" /\ UNCHANGED isActive
               ELSE audioPc' = "returnedStream" /\ isActive' = TRUE
       ELSE audioPc' = "thrown" /\ UNCHANGED <<mediaStream, isActive>>
    /\ lastOp' = Op("getUserMedia", 0)
    /\ UNCHANGED <<contextState, activations, orphanSources>>
    /\ UNCHANGED <<canvasVars, appVars, analyserVars, emitterVars>>

\* The rest of AudioManager.initialize(): context.resume() of
\* tryResumeContext settles (a rejection is caught), then the media-stream
\* source is returned if the context runs and a buffer source if not.
TryResumeSettles(resumed) ==
    /\ audioPc = "resume"
    /\ contextState' = IF resumed THEN "running" ELSE contextState
    /\ IF contextState' = "running"
       THEN audioPc' = "returnedStream" /\ isActive' = TRUE
       ELSE audioPc' = "returnedBuffer" /\ UNCHANGED isActive
    /\ lastOp' = Op("tryResumeContext", 0)
    /\ UNCHANGED <<mediaStream, activations, orphanSources>>
    /\ UNCHANGED <<canvasVars, appVars, analyserVars, emitterVars>>

\* The listeners of a click on the document: activateAudio of the
\* AudioManager calls context.resume() and waits for it; the listener of App
\* calls context.resume() and only logs.
ActivateAudio ==
    IF contextState = "suspended" /\ ~isActive
    THEN activations' = activations + 1
    ELSE UNCHANGED activations

\* A click (or touch, or key) anywhere on the page.
Click ==
    /\ inputs < MaxInputs
    /\ inputs' = inputs + 1
    /\ ActivateAudio
    /\ lastOp' = Op("click", 0)
    /\ UNCHANGED <<isRunning, currentMode, testModeEnabled, initPc, lineFrames>>
    /\ UNCHANGED <<contextState, mediaStream, isActive, audioPc, orphanSources>>
    /\ UNCHANGED <<canvasVars, analyserVars, emitterVars>>

\* The callback of activateAudio once the resume() of a user interaction
\* has resolved: a media-stream source is created and handed to the
\* 'audioSourceCreated' event, which has no listener.
ActivateAudioResumed ==
    /\ activations > 0
    /\ activations' = activations - 1
    /\ contextState' = "running"
    /\ isActive' = TRUE
    /\ orphanSources' = IF mediaStream THEN orphanSources + 1
                                       ELSE orphanSources
    /\ lastOp' = Op("audioSourceCreated", 0)
    /\ UNCHANGED <<mediaStream, audioPc>>
    /\ UNCHANGED <<canvasVars, appVars, analyserVars, emitterVars>>

\* The source audioManager.initialize() has returned.
ReturnedSource == IF audioPc = "returnedStream" THEN "stream" ELSE "buffer"

\* App.initialize() after its await, audioManager.initialize() having
\* returned: the source is connected, the analyser is handed to the particle
\* system, the controls are set up, and this.animate() runs the first frame
\* (currentMode is 'particles').
AppInitializeContinues(spectrum) ==
    /\ initPc = "awaitAudio"
    /\ audioPc \in {"returnedStream", "returnedBuffer"}
    /\ ticks < MaxTicks
    /\ initPc' = "done"
    /\ analyserInputs' = analyserInputs \cup {ReturnedSource}
    /\ audioAnalyser' = AppAnalyser
    /\ isRunning' = TRUE
    /\ spectrum \in HeardThrough(contextState, analyserInputs')
    /\ dataArray' = spectrum
    /\ ticks' = ticks + 1
    /\ frequencyBands' = UpdateFFTForces(frequencyBands, AppAnalyser, spectrum)
    /\ dots' = UpdateDots(dots, frequencyBands', width, height)
    /\ before' = dots
    /\ drawCalls' = IF showConnections THEN DrawConnections(dots') ELSE << >>
    /\ edges' = DrawnEdges(drawCalls')
    /\ triangles' = DrawnTriangles(drawCalls')
    /\ threw' = FALSE
    /\ lastOp' = Op("animate", 0)
    /\ UNCHANGED <<width, height, DOT_COUNT, showConnections>>
    /\ UNCHANGED <<currentMode, testModeEnabled, lineFrames, inputs>>
    /\ UNCHANGED <<useTestData, testOscillator, testGain, runningOscillators,
                   lfos>>
    /\ UNCHANGED <<managerVars, emitterVars>>

\* App.initialize() when audioManager.initialize() has thrown: the catch
\* clause logs.
AppInitializeFails ==
    /\ initPc = "awaitAudio"
    /\ audioPc = "thrown"
    /\ initPc' = "failed"
    /\ lastOp' = Op("initializeFailed", 0)
    /\ UNCHANGED <<isRunning, currentMode, testModeEnabled, lineFrames, inputs>>
    /\ UNCHANGED <<canvasVars, managerVars, analyserVars, emitterVars>>

\* App.animate without the test of isRunning.
AppAnimateAlways(spectrum) ==
    /\ ticks + lineFrames < MaxTicks
    /\ spectrum \in HeardThrough(contextState, analyserInputs)
    /\ GetAudioIntensity(spectrum)
    /\ IF currentMode = "particles"
       THEN Animate(spectrum) /\ UNCHANGED lineFrames
       ELSE /\ lineFrames' = lineFrames + 1
            /\ lastOp' = Op("lineAnimate", 0)
            /\ UNCHANGED canvasVars
    /\ UNCHANGED <<isRunning, currentMode, testModeEnabled, initPc, inputs>>
    /\ UNCHANGED <<managerVars, emitterVars>>

\* App.animate advancing the particle system in either mode, and the line
\* visualizer as well in 'waveform' mode.
AppAnimateBoth(spectrum) ==
    /\ isRunning
    /\ ticks + lineFrames < MaxTicks
    /\ spectrum \in HeardThrough(contextState, analyserInputs)
    /\ GetAudioIntensity(spectrum)
    /\ Animate(spectrum)
    /\ lineFrames' = IF currentMode = "particles" THEN lineFrames
                                                  ELSE lineFrames + 1
    /\ UNCHANGED <<isRunning, currentMode, testModeEnabled, initPc, inputs>>
    /\ UNCHANGED <<managerVars, emitterVars>>

\* App.animate as an animation frame: with isRunning false it returns at once
\* (and no frame was ever asked for); with isRunning true it reads the audio
\* intensity, advances the visualizer of the current mode and asks for the
\* next frame.
AppAnimate(spectrum) ==
    /\ isRunning
    /\ ticks + lineFrames < MaxTicks
    /\ spectrum \in HeardThrough(contextState, analyserInputs)
    /\ GetAudioIntensity(spectrum)
    /\ IF currentMode = "particles"
       THEN Animate(spectrum) /\ UNCHANGED lineFrames
       ELSE /\ lineFrames' = lineFrames + 1
            /\ lastOp' = Op("lineAnimate", 0)
            /\ UNCHANGED canvasVars
    /\ UNCHANGED <<isRunning, currentMode, testModeEnabled, initPc, inputs>>
    /\ UNCHANGED <<managerVars, emitterVars>>

\* The click listener of the test mode button, then those of the document.
TestModeButton ==
    /\ initPc = "done"
    /\ inputs < MaxInputs
    /\ inputs' = inputs + 1
    /\ testModeEnabled' = ~testModeEnabled
    /\ IF testModeEnabled' THEN EnableTestMode ELSE DisableTestMode
    /\ ActivateAudio
    /\ lastOp' = Op("testModeButton", 0)
    /\ UNCHANGED <<isRunning, currentMode, initPc, lineFrames>>
    /\ UNCHANGED <<contextState, mediaStream, isActive, audioPc, orphanSources>>
    /\ UNCHANGED <<canvasVars, emitterVars>>

\* The input listener of the particle count slider.
SliderInput(count, stream) ==
    /\ initPc = "done"
    /\ inputs < MaxInputs
    /\ inputs' = inputs + 1
    /\ SetDotCount(count, stream)
    /\ UNCHANGED <<isRunning, currentMode, testModeEnabled, initPc, lineFrames>>
    /\ UNCHANGED <<managerVars, analyserVars, emitterVars>>

\* The change listener of the show connections checkbox.
CheckboxChange ==
    /\ initPc = "done"
    /\ inputs < MaxInputs
    /\ inputs' = inputs + 1
    /\ SetShowConnections(~showConnections)
    /\ UNCHANGED <<isRunning, currentMode, testModeEnabled, initPc, lineFrames>>
    /\ UNCHANGED <<managerVars, analyserVars, emitterVars>>

\* The change listener of the visualization mode select.
ModeChange(mode) ==
    /\ initPc = "done"
    /\ inputs < MaxInputs
    /\ inputs' = inputs + 1
    /\ mode # currentMode
    /\ currentMode' = mode
    /\ lastOp' = Op("modeChange", 0)
    /\ UNCHANGED <<isRunning, testModeEnabled, initPc, lineFrames>>
    /\ UNCHANGED <<canvasVars, managerVars, analyserVars, emitterVars>>

\* The resize listener of the particle system on the window.
WindowResize(size) ==
    /\ inputs < MaxInputs
    /\ inputs' = inputs + 1
    /\ ResizeCanvas(size)
    /\ UNCHANGED <<isRunning, currentMode, testModeEnabled, initPc, lineFrames>>
    /\ UNCHANGED <<managerVars, analyserVars, emitterVars>>

AppNext ==
    \/ \E granted \in BOOLEAN : GetUserMediaSettles(granted)
    \/ \E resumed \in BOOLEAN : TryResumeSettles(resumed)
    \/ Click
    \/ ActivateAudioResumed
    \/ \E spectrum \in Spectra : AppInitializeContinues(spectrum)
    \/ AppInitializeFails
    \/ \E spectrum \in Spectra : AppAnimate(spectrum)
    \/ TestModeButton
    \/ \E count \in SliderCounts, stream \in StreamIds :
          SliderInput(count, stream)
    \/ CheckboxChange
    \/ \E mode \in {"particles", "waveform"} : ModeChange(mode)
    \/ \E size \in CanvasSizes : WindowResize(size)

AppSpec == AppStart /\ [][AppNext]_vars

\* The step of App.initialize() going past its await, as the fields it is
\* enabled by and the field it alone writes: in AppSpec the steps of
\* AppInitializeContinues and no others.
InitializeContinued ==
    /\ initPc = "awaitAudio"
    /\ audioPc \in {"returnedStream", "returnedBuffer"}
    /\ ticks < MaxTicks
    /\ initPc' = "done"

\* An animation frame, likewise: in AppSpec the steps of AppAnimate and no
\* others.
FrameRun ==
    /\ isRunning
    /\ ticks + lineFrames < MaxTicks
    /\ IF currentMode = "particles"
       THEN ticks' = ticks + 1 /\ lineFrames' = lineFrames
       ELSE lineFrames' = lineFrames + 1 /\ ticks' = ticks

\* The application with the steps the browser is bound to run: the callback
\* of a resume() made in a user interaction, the continuation of
\* App.initialize() once audioManager.initialize() has settled, and the
\* animation frames asked for.  The user need not do anything, and
\* getUserMedia and a resume() made without a user interaction may stay
\* pending.
AppFairSpec ==
    /\ AppSpec
    /\ WF_vars(ActivateAudioResumed)
    /\ WF_initPc(InitializeContinued)
    /\ WF_vars(AppInitializeFails)
    /\ WF_<<ticks, lineFrames>>(FrameRun)


\* ------------------------------------------- the AudioAnalyser on its own
\* An AudioAnalyser whose methods are called in any order, MaxCalls times.
\* lastOp.arg is 1 when enableTestMode found an oscillator or
\* disableTestMode found none, and 0 otherwise.
AnalyserStart ==
    \E size \in CanvasSizes, state \in {"suspended", "running"} :
        /\ width = size[1] * PS
        /\ height = size[2] * PS
        /\ DOT_COUNT = InitDotCount
        /\ dots = << >>
        /\ audioAnalyser = NoAnalyser
        /\ frequencyBands = InitialBands
        /\ showConnections = TRUE
        /\ drawCalls = << >>
        /\ edges = {}
        /\ triangles = {}
        /\ before = << >>
        /\ threw = FALSE
        /\ lastOp = Op("constructor", 0)
        /\ ticks = 0
        /\ AppInit /\ ManagerInit(state) /\ AnalyserInit /\ EmitterInit(1)

CallConnect(source) ==
    /\ inputs < MaxCalls
    /\ inputs' = inputs + 1
    /\ Connect(source)
    /\ lastOp' = Op("connect", 0)
    /\ UNCHANGED <<isRunning, currentMode, testModeEnabled, initPc, lineFrames>>
    /\ UNCHANGED <<canvasVars, managerVars, emitterVars>>

CallEnableTestMode ==
    /\ inputs < MaxCalls
    /\ inputs' = inputs + 1
    /\ EnableTestMode
    /\ lastOp' = Op("enableTestMode", IF testOscillator # "null" THEN 1 ELSE 0)
    /\ UNCHANGED <<isRunning, currentMode, testModeEnabled, initPc, lineFrames>>
    /\ UNCHANGED <<canvasVars, managerVars, emitterVars>>

CallDisableTestMode ==
    /\ inputs < MaxCalls
    /\ inputs' = inputs + 1
    /\ DisableTestMode
    /\ lastOp' = Op("disableTestMode", IF testOscillator = "null" THEN 1 ELSE 0)
    /\ UNCHANGED <<isRunning, currentMode, testModeEnabled, initPc, lineFrames>>
    /\ UNCHANGED <<canvasVars, managerVars, emitterVars>>

CallGetAudioIntensity(spectrum) ==
    /\ inputs < MaxCalls
    /\ inputs' = inputs + 1
    /\ spectrum \in HeardThrough(contextState, analyserInputs)
    /\ GetAudioIntensity(spectrum)
    /\ lastOp' = Op("getAudioIntensity", 0)
    /\ UNCHANGED <<isRunning, currentMode, testModeEnabled, initPc, lineFrames>>
    /\ UNCHANGED <<canvasVars, managerVars, emitterVars>>

AnalyserNext ==
    \/ \E source \in {"buffer", "stream"} : CallConnect(source)
    \/ CallEnableTestMode
    \/ CallDisableTestMode
    \/ \E spectrum \in Spectra : CallGetAudioIntensity(spectrum)

AnalyserSpec == AnalyserStart /\ [][AnalyserNext]_vars


\* --------------------------------------------- the emitter ParticleSystem
\* simulation/particles.ts in its two versions: "plain" (particles of life
\* 1.0, removed when their life is used up) and "varied" (random life, size
\* and colour, gravity and jitter, removed also when they leave the unit
\* square).  Positions and velocities are in millionths, life and dt in
\* thousandths of a second, Math.random() in thousandths.
ES == 1000000
LS == 1000

\* (x, y, vx, vy) a caller passes to emit: at rest in the middle, and moving
\* right near the right edge.
EmitArgs == { <<500000, 500000, 0, 0>>, <<900000, 500000, 400000, 0>> }

\* dt a caller passes to update: none, a sixtieth of a second (rounded), one
\* second, two and a half seconds.
DtValues == {0, 17, 1000, 2500}

\* Values of Math.random(), one for all the draws of a call.
EmitterRandoms == {0, 500, 999}

\* The particle emit pushes.
Emitted(args, r, class) ==
    IF class = "plain"
    THEN [x |-> args[1], y |-> args[2], vx |-> args[3], vy |-> args[4],
          life |-> LS]
    ELSE [x |-> args[1], y |-> args[2], vx |-> args[3], vy |-> args[4],
          life |-> 2 * LS + 2 * r,
          size |-> 50 + (r \div 10),
          color |-> r]

\* emit with the comparison <= in place of <.
EmitUpToCapacity(ps, capacity, args, r, class) ==
    IF Len(ps) <= capacity THEN Append(ps, Emitted(args, r, class)) ELSE ps

\* emit(x, y, vx, vy)
Emit(ps, capacity, args, r, class) ==
    IF Len(ps) < capacity THEN Append(ps, Emitted(args, r, class)) ELSE ps

\* The body of the loop of update up to the test: the particle moved and
\* aged.
Aged(p, dt, r, class) ==
    LET moved == [p EXCEPT !.x = p.x + TDiv(p.vx * dt, LS),
                           !.y = p.y + TDiv(p.vy * dt, LS)]
    IN  IF class = "plain"
        THEN [moved EXCEPT !.life = p.life - dt]
        ELSE [moved EXCEPT !.vx = p.vx + (r - 500),
                           !.vy = p.vy + dt + (r - 500),
                           !.life = p.life - dt]

\* The test of the loop of update: the particle is spliced out.
Dead(p, class) ==
    IF class = "plain"
    THEN p.life <= 0
    ELSE p.life <= 0 \/ p.x < 0 \/ p.x > ES \/ p.y < 0 \/ p.y > ES

\* this.particles.splice(i, 1), i counted from 1
Splice(ps, i) ==
    [k \in 1..(Len(ps) - 1) |-> IF k < i THEN ps[k] ELSE ps[k + 1]]

\* The loop of update from index i down to the first particle.
RECURSIVE UpdateLoop(_, _, _, _, _)
UpdateLoop(ps, i, dt, r, class) ==
    IF i = 0
    THEN ps
    ELSE LET p == Aged(ps[i], dt, r, class)
         IN  IF Dead(p, class)
             THEN UpdateLoop(Splice(ps, i), i - 1, dt, r, class)
             ELSE UpdateLoop([ps EXCEPT ![i] = p], i - 1, dt, r, class)

\* update(dt)
Update(ps, dt, r, class) == UpdateLoop(ps, Len(ps), dt, r, class)

\* new ParticleSystem(capacity), of either version.
EmitterStart ==
    \E size \in CanvasSizes, capacity \in 0..MaxCapacity :
      \E class \in {"plain", "varied"} :
        /\ width = size[1] * PS
        /\ height = size[2] * PS
        /\ DOT_COUNT = InitDotCount
        /\ dots = << >>
        /\ audioAnalyser = NoAnalyser
        /\ frequencyBands = InitialBands
        /\ showConnections = TRUE
        /\ drawCalls = << >>
        /\ edges = {}
        /\ triangles = {}
        /\ before = << >>
        /\ threw = FALSE
        /\ lastOp = Op("constructor", 0)
        /\ ticks = 0
        /\ AppInit /\ ManagerInit("suspended") /\ AnalyserInit
        /\ particles = << >>
        /\ maxParticles = capacity
        /\ particleClass = class

\* A call of emit; lastOp.arg is the number of particles the call found.
CallEmit(args, r) ==
    /\ inputs < MaxCalls
    /\ inputs' = inputs + 1
    /\ particles' = Emit(particles, maxParticles, args, r, particleClass)
    /\ lastOp' = Op("emit", Len(particles))
    /\ UNCHANGED <<maxParticles, particleClass>>
    /\ UNCHANGED <<isRunning, currentMode, testModeEnabled, initPc, lineFrames>>
    /\ UNCHANGED <<canvasVars, managerVars, analyserVars>>

\* A call of update; lastOp.arg is the number of particles the call found.
CallUpdate(dt, r) ==
    /\ inputs < MaxCalls
    /\ inputs' = inputs + 1
    /\ particles' = Update(particles, dt, r, particleClass)
    /\ lastOp' = Op("update", Len(particles))
    /\ UNCHANGED <<maxParticles, particleClass>>
    /\ UNCHANGED <<isRunning, currentMode, testModeEnabled, initPc, lineFrames>>
    /\ UNCHANGED <<canvasVars, managerVars, analyserVars>>

EmitterNext ==
    \/ \E args \in EmitArgs :
          \* Math.random() is consulted only by the varied version, and only
          \* when a particle is pushed
          \E r \in (IF particleClass = "varied"
                       /\ Len(particles) < maxParticles
                    THEN EmitterRandoms ELSE {0}) :
              CallEmit(args, r)
    \/ \E dt \in DtValues :
          \E r \in (IF particleClass = "varied" /\ particles # << >>
                    THEN EmitterRandoms ELSE {0}) :
              CallUpdate(dt, r)

EmitterSpec == EmitterStart /\ [][EmitterNext]_vars


\* ------------------------------------------------------------- properties
Ticked == lastOp.op = "animate"

Finite(dot) ==
    ~IsNaN(dot.x) /\ ~IsNaN(dot.y) /\ ~IsNaN(dot.vx) /\ ~IsNaN(dot.vy)

DotIds == 1..Len(dots)

\* C1: after every tick every particle has 0 <= x <= width and
\* 0 <= y <= height.
C1_PositionsInBounds ==
    Ticked =>
        \A i \in DotIds :
            /\ ~IsNaN(dots[i].x) /\ 0 <= dots[i].x /\ dots[i].x <= width
            /\ ~IsNaN(dots[i].y) /\ 0 <= dots[i].y /\ dots[i].y <= height

\* C2: after every tick every particle whose velocity is a number has speed
\* sqrt(vx^2 + vy^2) at most maxSpeed (up to one fixed-point unit of
\* rounding).
C2_SpeedAtMostMax ==
    Ticked =>
        \A i \in DotIds :
            (~IsNaN(dots[i].vx) /\ ~IsNaN(dots[i].vy)) =>
                dots[i].vx * dots[i].vx + dots[i].vy * dots[i].vy
                    <= (maxSpeed * PS + 1) * (maxSpeed * PS + 1)

\* C3: every triangle drawn has opacity in [0, 0.02].
C3_TriangleOpacityRange ==
    \A t \in triangles : 0 <= t.opacity /\ t.opacity <= TriangleOpacity

Coincident(i, j) ==
    /\ ~IsNaN(dots[i].x) /\ ~IsNaN(dots[i].y)
    /\ dots[i].x = dots[j].x /\ dots[i].y = dots[j].y

EdgeOf(i, j) == { e \in edges : e.i = i /\ e.j = j }

\* C4: every edge drawn has opacity in [0, 1], and a pair of particles at
\* distance 0 is drawn as an edge of opacity exactly 1.
C4_EdgeOpacityRange ==
    /\ \A e \in edges : 0 <= e.opacity /\ e.opacity <= OS
    /\ (Ticked /\ showConnections) =>
          \A i \in DotIds : \A j \in DotIds :
              (i < j /\ Coincident(i, j)) =>
                  /\ EdgeOf(i, j) # {}
                  /\ \A e \in EdgeOf(i, j) : e.opacity = OS

\* A tick has drawn a pair at distance 0 as an edge of opacity 1.
C4_Witness ==
    /\ Ticked /\ showConnections
    /\ \E e \in edges : Coincident(e.i, e.j) /\ e.opacity = OS
    /\ \E e \in edges : 0 < e.opacity /\ e.opacity < OS

AtThreshold(i, j) ==
    /\ ~IsNaN(dots[i].x) /\ ~IsNaN(dots[i].y)
    /\ ~IsNaN(dots[j].x) /\ ~IsNaN(dots[j].y)
    /\ (dots[i].x - dots[j].x) * (dots[i].x - dots[j].x)
         + (dots[i].y - dots[j].y) * (dots[i].y - dots[j].y)
       = (DIST_THRESH_MAX * PS) * (DIST_THRESH_MAX * PS)

\* C5 as stated: a pair at distance exactly DIST_THRESH_MAX is drawn as an
\* edge, of opacity 0.
C5_ThresholdPairDrawn ==
    (Ticked /\ showConnections) =>
        \A i \in DotIds : \A j \in DotIds :
            (i < j /\ AtThreshold(i, j)) =>
                \E e \in EdgeOf(i, j) : e.opacity = 0

\* C5 amended: a pair at distance exactly DIST_THRESH_MAX is not drawn as an
\* edge, and every edge that is drawn has opacity above 0.
C5_ThresholdPairNotDrawn ==
    /\ \A e \in edges : e.opacity > 0
    /\ Ticked =>
          \A i \in DotIds : \A j \in DotIds :
              (i < j /\ AtThreshold(i, j)) => EdgeOf(i, j) = {}

\* A tick has drawn edges while a pair sits at distance exactly
\* DIST_THRESH_MAX.
C5_Witness ==
    /\ Ticked /\ showConnections /\ edges # {}
    /\ \E i \in DotIds : \E j \in DotIds : i < j /\ AtThreshold(i, j)

\* C6: every band intensity is a number in [0, 1].
C6_IntensityRange ==
    \A b \in 1..Len(frequencyBands) :
        /\ ~IsNaN(frequencyBands[b].intensity)
        /\ 0 <= frequencyBands[b].intensity
        /\ frequencyBands[b].intensity <= IS

\* C7: after a tick made with no analyser attached no error was raised and
\* every band intensity that is a number is 0.
C7_SilentWithoutAnalyser ==
    (Ticked /\ audioAnalyser = NoAnalyser) =>
        /\ ~threw
        /\ \A b \in 1..Len(frequencyBands) :
              \/ IsNaN(frequencyBands[b].intensity)
              \/ frequencyBands[b].intensity = 0

\* C8: the number of particles held equals getDotCount().
C8_CountMatchesPopulation == Len(dots) = DOT_COUNT

\* C9: setDotCount with a negative count raises an error and leaves
\* DOT_COUNT and the particles as they were.
C9_NegativeCountRejected ==
    [][(lastOp'.op = "setDotCount" /\ lastOp'.arg < 0) =>
          (threw' /\ DOT_COUNT' = DOT_COUNT /\ dots' = dots)]_vars

Reconfigured == lastOp.op \in {"setDotCount", "setShowConnections"}

\* C10 as stated, for requests with an in-range count: a setDotCount or
\* setShowConnections call leaves the particles and the exposed count as
\* they were.
C10_ReconfigurationDeferred ==
    [][(Reconfigured' /\ lastOp'.arg >= 0) =>
          (dots' = dots /\ DOT_COUNT' = DOT_COUNT)]_vars

Max(a, b) == IF a > b THEN a ELSE b

\* C10 amended: setShowConnections is only a field write (particles, exposed
\* count and canvas are as before, and the next tick draws connections
\* exactly when the flag is set); setDotCount takes effect within the call:
\* on return the exposed count is the requested count and the population
\* holds max(count, 0) particles.
C10_ReconfigurationEffect ==
    [][/\ lastOp'.op = "setShowConnections" =>
             /\ dots' = dots /\ DOT_COUNT' = DOT_COUNT
             /\ edges' = edges /\ triangles' = triangles
       /\ lastOp'.op = "setDotCount" =>
             /\ DOT_COUNT' = lastOp'.arg
             /\ Len(dots') = Max(lastOp'.arg, 0)
             /\ edges' = edges /\ triangles' = triangles
       /\ lastOp'.op = "animate" =>
             /\ Len(dots') = Len(dots)
             /\ ~showConnections => (edges' = {} /\ triangles' = {})
             /\ showConnections => edges' = DrawnEdges(DrawConnections(dots'))]_vars

\* Between two ticks a setDotCount call has changed the population size
\* while the canvas still shows the edges of the previous tick.
C10_Witness ==
    /\ lastOp.op = "setDotCount"
    /\ ticks >= 1 /\ ticks < MaxTicks
    /\ lastOp.arg >= 1 /\ lastOp.arg # InitDotCount
    /\ DOT_COUNT = lastOp.arg /\ Len(dots) = lastOp.arg
    /\ edges # {}

InCanvas(dot) ==
    /\ ~IsNaN(dot.x) /\ 0 <= dot.x /\ dot.x <= width
    /\ ~IsNaN(dot.y) /\ 0 <= dot.y /\ dot.y <= height

\* C11: after setDotCount(n) with n >= 0 the population is n particles, each
\* one made by initializeDots from fresh Math.random() draws (none of them
\* carries the state of a particle that was there before), and each one lies
\* in [0,width] x [0,height].
C11_PopulationReplaced ==
    (lastOp.op = "setDotCount" /\ lastOp.arg >= 0) =>
        /\ Len(dots) = lastOp.arg
        /\ \E stream \in StreamIds :
              \A i \in DotIds :
                  dots[i] = NewDot(Random(stream, i), width, height)
        /\ \A i \in DotIds : InCanvas(dots[i])

\* After at least one tick, setDotCount has been called with the largest
\* count (no smaller than the count before it) and the new particles are in
\* the canvas.
C11_Witness ==
    /\ lastOp.op = "setDotCount" /\ lastOp.arg = MaxDots
    /\ ticks >= 1
    /\ Len(dots) = MaxDots
    /\ \A i \in DotIds : InCanvas(dots[i])
    /\ edges # {}

\* C12: a tick integrates the particles by updateDots whatever the
\* showConnections flag is, and with the flag off the tick draws no edge and
\* no triangle.
C12_FlagOnlyAffectsDrawing ==
    Ticked =>
        /\ dots = UpdateDots(before, frequencyBands, width, height)
        /\ ~showConnections =>
              (drawCalls = << >> /\ edges = {} /\ triangles = {})

\* A tick with the flag off has moved particles that are within the
\* threshold of one another and has drawn nothing.
C12_Witness ==
    /\ Ticked /\ ~showConnections
    /\ dots # before
    /\ \E i \in DotIds : \E j \in DotIds : i < j /\ Near(dots[i], dots[j])
    /\ edges = {} /\ triangles = {}

Silent ==
    \A b \in 1..Len(frequencyBands) : frequencyBands[b].intensity = 0

\* The particle is at rest and no farther than 0.4 * min(width, height) from
\* the canvas centre.
RestsInFreeRadius(dot) ==
    /\ Finite(dot)
    /\ dot.vx = 0 /\ dot.vy = 0
    /\ LET dx == (width \div 2) - dot.x
           dy == (height \div 2) - dot.y
           maxDist == TDiv(Min(width, height) * MaxDistPct, 100)
       IN  dx * dx + dy * dy <= maxDist * maxDist

\* C13: in a tick with every band intensity 0, a particle at rest within the
\* free radius of the centre keeps its position and its zero velocity.
C13_RestStaysAtRest ==
    (Ticked /\ Silent) =>
        \A i \in DotIds :
            RestsInFreeRadius(before[i]) => dots[i] = before[i]

\* Two silent ticks have left a particle at rest at the very centre, or on
\* the rim of the free radius, where it was.
C13_Witness ==
    /\ Ticked /\ Silent /\ ticks = MaxTicks
    /\ \E i \in DotIds :
          /\ RestsInFreeRadius(before[i]) /\ dots[i] = before[i]
          /\ \/ (dots[i].x = width \div 2 /\ dots[i].y = height \div 2)
             \/ dots[i].x = (width \div 2)
                              + TDiv(Min(width, height) * MaxDistPct, 100)

Moved(dot) ==
    Move(InwardPull(ApplyFFTForces(dot, frequencyBands, width, height),
                    width, height))

C15_ResizeThenInBounds ==
    [][/\ lastOp'.op = "resizeCanvas" => dots' = dots
       /\ (lastOp.op = "resizeCanvas" /\ lastOp'.op = "animate") =>
             \A i \in 1..Len(dots') :
                 /\ ~IsNaN(dots'[i].x)
                 /\ 0 <= dots'[i].x /\ dots'[i].x <= width'
                 /\ ~IsNaN(dots'[i].y)
                 /\ 0 <= dots'[i].y /\ dots'[i].y <= height']_vars

CallIds(kind) == { n \in 1..Len(drawCalls) : drawCalls[n].kind = kind }

\* The two particles are at a distance strictly below DIST_THRESH_MAX.
Close(i, j) ==
    /\ ~IsNaN(dots[i].x) /\ ~IsNaN(dots[i].y)
    /\ ~IsNaN(dots[j].x) /\ ~IsNaN(dots[j].y)
    /\ (dots[i].x - dots[j].x) * (dots[i].x - dots[j].x)
         + (dots[i].y - dots[j].y) * (dots[i].y - dots[j].y)
       < (DIST_THRESH_MAX * PS) * (DIST_THRESH_MAX * PS)

\* C17: the fills of a connectivity pass are the triples of distinct
\* particles whose three distances are all strictly below the threshold,
\* each such triple filled exactly once and nothing else filled.
C17_TrianglesAreCloseTriples ==
    (Ticked /\ showConnections) =>
        /\ \A n \in CallIds("fill") :
              LET c == drawCalls[n]
              IN  /\ {c.i, c.j, c.k} \subseteq DotIds
                  /\ Cardinality({c.i, c.j, c.k}) = 3
                  /\ Close(c.i, c.j) /\ Close(c.j, c.k) /\ Close(c.i, c.k)
        /\ \A i \in DotIds : \A j \in DotIds : \A k \in DotIds :
              (i < j /\ j < k /\ Close(i, j) /\ Close(j, k) /\ Close(i, k)) =>
                  Cardinality({ n \in CallIds("fill") :
                                  {drawCalls[n].i, drawCalls[n].j,
                                   drawCalls[n].k} = {i, j, k} }) = 1

\* A pass over at least three particles has filled a triangle two of whose
\* corners coincide.
C17_Witness ==
    /\ Ticked /\ showConnections /\ Len(dots) >= 3
    /\ \E n \in CallIds("fill") :
          Coincident(drawCalls[n].i, drawCalls[n].j)

\* C18: the strokes of a connectivity pass are the pairs of distinct
\* particles at a distance strictly below the threshold, each such pair
\* stroked exactly once, with opacity 1 - dist / DIST_THRESH_MAX (to one
\* fixed-point unit), and no other pair stroked.
C18_EdgesAreClosePairs ==
    (Ticked /\ showConnections) =>
        /\ \A n \in CallIds("stroke") :
              LET c == drawCalls[n]
                  faded == OS - c.opacity
                  dist == Distance(dots[c.i], dots[c.j])
              IN  /\ {c.i, c.j} \subseteq DotIds
                  /\ c.i # c.j
                  /\ Close(c.i, c.j)
                  /\ faded * (DIST_THRESH_MAX * PS) <= dist * OS
                  /\ dist * OS < (faded + 1) * (DIST_THRESH_MAX * PS)
        /\ \A i \in DotIds : \A j \in DotIds :
              (i < j /\ Close(i, j)) =>
                  Cardinality({ n \in CallIds("stroke") :
                                  {drawCalls[n].i, drawCalls[n].j} = {i, j} })
                      = 1

\* A pass has stroked a pair below the threshold that is part of no
\* triangle, and has left out a pair at or beyond the threshold.
C18_Witness ==
    /\ Ticked /\ showConnections
    /\ \E n \in CallIds("stroke") :
          /\ drawCalls[n].opacity < OS
          /\ \A m \in CallIds("fill") :
                ~({drawCalls[n].i, drawCalls[n].j}
                     \subseteq {drawCalls[m].i, drawCalls[m].j, drawCalls[m].k})
    /\ \E i \in DotIds : \E j \in DotIds :
          /\ i < j /\ Finite(dots[i]) /\ Finite(dots[j]) /\ ~Close(i, j)
          /\ \A n \in CallIds("stroke") :
                {drawCalls[n].i, drawCalls[n].j} # {i, j}

\* C19: in a tick with an analyser attached, the bin index of every band is
\* inside the magnitude array, 0 <= binIndex <= frequencyBinCount - 1.
C19_BinIndexInsideArray ==
    (Ticked /\ audioAnalyser # NoAnalyser) =>
        \A b \in 1..Len(frequencyBands) :
            LET binIndex == BinIndex(frequencyBands[b].centerFreq,
                                     audioAnalyser)
            IN  0 <= binIndex
                /\ binIndex <= audioAnalyser.frequencyBinCount - 1

\* The squared distance from the particle to anchor b.
AnchorDistSq(dot, b) ==
    LET a == Anchor(b, width, height)
    IN  (a.x - dot.x) * (a.x - dot.x) + (a.y - dot.y) * (a.y - dot.y)

\* C20: in a tick, the anchor of a band at distance below 1 pixel from the
\* particle (0 included) adds nothing to its force; an anchor at distance
\* d >= 1 adds a force along the line to the anchor, toward it, of magnitude
\* FORCE_CONSTANT * intensity / d^2 (to the rounding of the fixed point).
C20_ForceOfOneSource ==
    Ticked =>
        \A i \in DotIds : \A b \in 1..Len(frequencyBands) :
            (Finite(before[i]) /\ ~IsNaN(frequencyBands[b].intensity)) =>
                LET a == Anchor(b, width, height)
                    dx == a.x - before[i].x
                    dy == a.y - before[i].y
                    d2 == AnchorDistSq(before[i], b)
                    d == Sqrt(d2)
                    f == BandForce(before[i], frequencyBands[b], a)
                    mag == TDiv(TDiv(FORCE_CONSTANT * frequencyBands[b].intensity,
                                     IS \div FS) * PS,
                                d2 \div PS)
                    tol == 3 * mag + 2 * d * ((mag \div 1000) + 1)
                IN  /\ d2 < PS * PS => (f.fx = 0 /\ f.fy = 0)
                    /\ d2 >= PS * PS =>
                          /\ Abs(f.fx * dx + f.fy * dy - mag * d) <= tol
                          /\ Abs(f.fx * dy - f.fy * dx) <= tol
                          /\ f.fx * dx >= 0 /\ f.fy * dy >= 0

\* A tick has been made with a particle exactly on the anchor of a band of
\* positive intensity, other bands of positive intensity being farther than
\* 1 pixel away.
C20_Witness ==
    /\ Ticked
    /\ \E i \in DotIds :
          /\ \E b \in 1..Len(frequencyBands) :
                /\ AnchorDistSq(before[i], b) = 0
                /\ frequencyBands[b].intensity > 0
          /\ \E b \in 1..Len(frequencyBands) :
                /\ AnchorDistSq(before[i], b) >= PS * PS
                /\ frequencyBands[b].intensity > 0
                /\ BandForce(before[i], frequencyBands[b],
                             Anchor(b, width, height)).fx # 0

\* What the inward pull of updateDots adds to the velocity of the particle.
PullOf(dot) ==
    LET pulled == InwardPull([dot EXCEPT !.vx = 0, !.vy = 0], width, height)
    IN  [x |-> pulled.vx, y |-> pulled.vy]

\* The particle after a tick in which the inward pull is a force: it is added
\* to the band forces, divided by the mass, and then damped and limited with
\* the rest of the velocity before the position step.
PullAsForce(dot) ==
    LET total == TotalForce(dot, frequencyBands, 1, width, height)
        pull == PullOf(dot)
        ax == FScale(total.fx, PS, (FS \div PS) * dot.mass)
                 + TDiv(pull.x * PS, dot.mass)
        ay == FScale(total.fy, PS, (FS \div PS) * dot.mass)
                 + TDiv(pull.y * PS, dot.mass)
        damped == [dot EXCEPT !.vx = FScale(dot.vx + ax, DAMPING, 100),
                              !.vy = FScale(dot.vy + ay, DAMPING, 100)]
    IN  Collide(Move(LimitSpeed(damped)), width, height)

\* The two particles agree in every field to two fixed-point units.
AlmostEqual(dot1, dot2) ==
    /\ Abs(dot1.x - dot2.x) <= 2 /\ Abs(dot1.y - dot2.y) <= 2
    /\ Abs(dot1.vx - dot2.vx) <= 2 /\ Abs(dot1.vy - dot2.vy) <= 2

\* C21: a tick leaves every particle where it would be if the inward pull
\* were part of the total force: divided by the mass, then damped and limited
\* with the velocity before the position step.
C21_PullIsPartOfForce ==
    (Ticked /\ \A b \in 1..Len(frequencyBands) :
                  ~IsNaN(frequencyBands[b].intensity)) =>
        \A i \in DotIds :
            Finite(before[i]) => AlmostEqual(dots[i], PullAsForce(before[i]))

\* The boundary response on one axis: position p and velocity v after the
\* position step, q and u after the response, bound the canvas size.
AxisResponse(p, v, q, u, bound) ==
    /\ p < 0 =>
          (q = 0 /\ u = TDiv(Abs(v) * EDGE_BOUNCE, 100) /\ u >= 0)
    /\ p > bound =>
          (q = bound /\ u = -TDiv(Abs(v) * EDGE_BOUNCE, 100) /\ u <= 0)
    /\ (0 <= p /\ p <= bound) => (q = p /\ u = v)

\* C22: after a tick, for every particle whose moved state is a number, the
\* x axis and the y axis each show the boundary response of that axis alone:
\* below 0 gives 0 and +|v|*EDGE_BOUNCE, above the bound gives the bound and
\* -|v|*EDGE_BOUNCE, inside leaves coordinate and velocity as the move made
\* them; the mass is untouched.
C22_BoundaryPerAxis ==
    Ticked =>
        \A i \in DotIds :
            Finite(Moved(before[i])) =>
                LET m == Moved(before[i])
                IN  /\ AxisResponse(m.x, m.vx, dots[i].x, dots[i].vx, width)
                    /\ AxisResponse(m.y, m.vy, dots[i].y, dots[i].vy, height)
                    /\ dots[i].mass = m.mass

\* One tick has bounced a particle off the left edge and another off the
\* bottom edge, each with its other axis as the move made it.
C22_Witness ==
    /\ Ticked
    /\ \E i \in DotIds :
          LET m == Moved(before[i])
          IN  /\ Finite(m) /\ m.x < 0 /\ 0 <= m.y /\ m.y <= height
              /\ dots[i].x = 0 /\ dots[i].vx > 0
              /\ dots[i].y = m.y /\ dots[i].vy = m.vy
    /\ \E i \in DotIds :
          LET m == Moved(before[i])
          IN  /\ Finite(m) /\ m.y > height
              /\ dots[i].y = height /\ dots[i].vy < 0
              /\ dots[i].x = m.x /\ dots[i].vx = m.vx

\* The intensities are what updateFFTForces reads from one spectrum.
SampledFrom(spectrum) ==
    \A b \in 1..Len(frequencyBands) :
        frequencyBands[b].intensity
            = SampledIntensity(frequencyBands[b].centerFreq, audioAnalyser,
                               spectrum)

\* C23: after a tick, the intensities are those sampled in the tick (when an
\* analyser is attached), the particles are the particles the tick found,
\* integrated with those intensities, and the canvas calls are those of a
\* connectivity pass over the particles as integrated.
C23_StagesInOrder ==
    Ticked =>
        /\ audioAnalyser # NoAnalyser =>
              \E spectrum \in Spectra : SampledFrom(spectrum)
        /\ dots = UpdateDots(before, frequencyBands, width, height)
        /\ showConnections => drawCalls = DrawConnections(dots)

\* The first tick with an analyser attached has sampled positive
\* intensities; the particles differ from what the intensities of before the
\* tick (all 0) give, and the canvas calls differ from those of the
\* positions of before the tick.
C23_Witness ==
    /\ Ticked /\ ticks = 1 /\ audioAnalyser # NoAnalyser /\ showConnections
    /\ \A i \in DotIds : Finite(dots[i])
    /\ \E b \in 1..Len(frequencyBands) : frequencyBands[b].intensity > 0
    /\ dots # UpdateDots(before, InitialBands, width, height)
    /\ drawCalls # << >>
    /\ drawCalls # DrawConnections(before)

\* The connectivity pass of the tick just run, over the particles as they are.
PassNow == IF showConnections THEN DrawConnections(dots) ELSE << >>

\* C24: after a tick, every particle is what the integration alone makes of
\* it (the connectivity pass has changed no position, velocity or mass), the
\* bands keep their centre frequencies and their number, and the edges and
\* the triangles are those of a pass over the present positions, whatever an
\* earlier tick drew.
C24_ConnectivityReadOnly ==
    Ticked =>
        /\ \A i \in DotIds :
              dots[i] = UpdateDot(before[i], frequencyBands, width, height)
        /\ Len(frequencyBands) = NUM_FREQUENCY_BANDS
        /\ \A b \in 1..Len(frequencyBands) :
              frequencyBands[b].centerFreq = InitialBands[b].centerFreq
        /\ edges = DrawnEdges(PassNow)
        /\ triangles = DrawnTriangles(PassNow)

\* The second of two ticks: its graph is not empty and is not the graph of
\* the positions the tick found, one edge of which is gone.
C24_Witness ==
    /\ Ticked /\ ticks = 2 /\ showConnections
    /\ edges # {}
    /\ DrawnEdges(DrawConnections(before)) \ edges # {}

Reverse(seq) == [i \in 1..Len(seq) |-> seq[Len(seq) + 1 - i]]

\* C25: after a tick, every particle is what updateDots makes of that
\* particle alone, and of that particle next to any other particle in either
\* order; the array in reverse order gives the same particles in reverse.
C25_ParticlesIndependent ==
    Ticked =>
        /\ \A i \in DotIds :
              /\ UpdateDots(<<before[i]>>, frequencyBands, width, height)
                    = <<dots[i]>>
              /\ \A j \in DotIds :
                    /\ UpdateDots(<<before[j], before[i]>>, frequencyBands,
                                  width, height) = <<dots[j], dots[i]>>
        /\ UpdateDots(Reverse(before), frequencyBands, width, height)
              = Reverse(dots)

\* A tick over three particles at different places, all of which it moved.
C25_Witness ==
    /\ Ticked /\ Len(dots) >= 3
    /\ \A i \in DotIds : Finite(dots[i]) /\ dots[i] # before[i]
    /\ \A i, j \in DotIds :
          i # j => (before[i].x # before[j].x \/ before[i].y # before[j].y)

\* C26: in the application, once a frame has advanced a visualizer,
\* audioManager.initialize() has returned a source, App.initialize() has gone
\* past connectAudioAnalyser and isRunning is true; once
\* audioManager.initialize() has thrown, isRunning is false and no frame has
\* advanced anything, the particle system least of all.
C26_NoTickBeforeAudio ==
    /\ (ticks > 0 \/ lineFrames > 0 \/ Ticked \/ before # << >>) =>
          /\ audioPc \in {"returnedStream", "returnedBuffer"}
          /\ initPc = "done"
          /\ audioAnalyser = AppAnalyser
          /\ ReturnedSource \in analyserInputs
          /\ isRunning
    /\ audioPc = "thrown" =>
          /\ ~isRunning
          /\ ticks = 0 /\ lineFrames = 0
          /\ audioAnalyser = NoAnalyser
          /\ drawCalls = << >>

\* The particle system has been ticked twice, the microphone source
\* connected.
C26_Witness ==
    /\ Ticked /\ ticks = 2
    /\ isRunning /\ audioPc = "returnedStream"
    /\ audioAnalyser = AppAnalyser

\* A step that is an animation frame: one of the two visualizers advances.
FrameStep == ticks' # ticks \/ lineFrames' # lineFrames

\* C27: a frame advances the particle system alone (by one updateDots of the
\* particles) when the mode is 'particles' and the line visualizer alone when
\* it is 'waveform', leaving particles and intensities as they are; while
\* the mode is and stays 'waveform' the particles change with no step but a
\* setDotCount, which puts a fresh population of the count in their place.
C27_OneVisualizerPerFrame ==
    [][ /\ FrameStep =>
              IF currentMode = "particles"
              THEN /\ ticks' = ticks + 1 /\ lineFrames' = lineFrames
                   /\ dots' = UpdateDots(dots, frequencyBands', width, height)
              ELSE /\ lineFrames' = lineFrames + 1 /\ ticks' = ticks
                   /\ dots' = dots /\ frequencyBands' = frequencyBands
                   /\ drawCalls' = drawCalls
        /\ (currentMode = "waveform" /\ currentMode' = "waveform") =>
              IF inputs' # inputs /\ lastOp'.op = "setDotCount"
              THEN /\ Len(dots') = lastOp'.arg
                   /\ \E stream \in StreamIds :
                         dots' = InitializeDots(<< >>, lastOp'.arg, stream,
                                                width, height)
              ELSE dots' = dots
      ]_vars

\* In 'waveform' mode, after a frame of the line visualizer that followed a
\* tick of the particle system, the slider has put a population of another
\* size in place of the particles.
C27_Witness ==
    /\ currentMode = "waveform"
    /\ ticks = 1 /\ lineFrames = 1
    /\ lastOp.op = "setDotCount"
    /\ Len(dots) = lastOp.arg /\ Len(dots) # InitDotCount

\* C28: whatever the calls, useTestData is true exactly when the test
\* oscillator exists, the test gain exists (and is connected to the analyser
\* node) exactly when the oscillator exists, and one oscillator runs when it
\* exists and none when it does not; enableTestMode with an oscillator and
\* disableTestMode without one change no field of the analyser.
C28_TestModeConsistent ==
    /\ [](/\ useTestData <=> testOscillator # "null"
          /\ testGain # "null" <=> testOscillator # "null"
          /\ "testGain" \in analyserInputs <=> testOscillator # "null"
          /\ runningOscillators = IF testOscillator # "null" THEN 1 ELSE 0)
    /\ [][ /\ (lastOp'.op = "enableTestMode" /\ testOscillator # "null") =>
                UNCHANGED analyserVars
           /\ (lastOp'.op = "disableTestMode" /\ testOscillator = "null") =>
                UNCHANGED analyserVars
         ]_vars

\* enableTestMode has just been called with test mode on, after an earlier
\* disableTestMode with test mode off, and sources are connected.
C28_Witness ==
    /\ lastOp = Op("enableTestMode", 1)
    /\ useTestData /\ testOscillator = "node" /\ runningOscillators = 1
    /\ lfos = 1
    /\ inputs >= 3

\* audioManager.initialize() has returned the buffer source and the context
\* has since been resumed by the callback of a user interaction, which has
\* made a media-stream source.
ResumedAfterPlaceholder ==
    /\ audioPc = "returnedBuffer"
    /\ contextState = "running"
    /\ orphanSources > 0

\* C29: once audioManager.initialize() has returned the buffer source and a
\* user interaction has resumed the context, the analyser node is eventually
\* connected to a media-stream source.
C29_StreamEventuallyConnected ==
    ResumedAfterPlaceholder ~> ("stream" \in analyserInputs)

\* The placeholder buffer source is the only source the analyser is ever
\* given from audioManager.initialize() in such a run.
C29_NeverConnected ==
    audioPc = "returnedBuffer" => "stream" \notin analyserInputs

\* C30: the emitter never holds more particles than maxParticles; an emit
\* that finds maxParticles particles or more leaves the list as it is, and
\* any other emit adds one particle at the end; after update every particle
\* left has life above 0, and no particle is added.
C30_EmitterWithinCapacity ==
    /\ [](/\ Len(particles) <= maxParticles
          /\ lastOp.op = "update" =>
                /\ \A i \in 1..Len(particles) : particles[i].life > 0
                /\ Len(particles) <= lastOp.arg)
    /\ [][ lastOp'.op = "emit" =>
              IF Len(particles) >= maxParticles
              THEN particles' = particles
              ELSE /\ Len(particles') = Len(particles) + 1
                   /\ SubSeq(particles', 1, Len(particles)) = particles
         ]_vars

\* The emitter is full at the largest capacity, one of its particles aged by
\* an update, and the last call was an emit that found it full.
C30_Witness ==
    /\ lastOp = Op("emit", maxParticles)
    /\ maxParticles = MaxCapacity
    /\ Len(particles) = maxParticles
    /\ \E i \in 1..Len(particles) : particles[i].life < LS

=============================================================================
